---- MODULE Spec2Model ----
(***************************************************************************)
(* A model of speed-cloudflare-cli (src/lib.js): the timed HTTPS           *)
(* transaction request(), the trial runners measureLatency /               *)
(* measureDownload / measureUpload, the two lookups made with get(), and   *)
(* the orchestrator speedTest.                                             *)
(*                                                                         *)
(* JavaScript runs every handler to completion.  One action below is one   *)
(* handler of an I/O event, or one continuation of an await (a microtask); *)
(* while a continuation is pending no I/O handler is enabled.              *)
(*                                                                         *)
(* Numbers are exact: a finite number is n/d * 10^e in lowest terms, with  *)
(* d coprime to 10 and n no multiple of 10, so that the terabit            *)
(* intermediate results of measureSpeed stay inside TLC's integers.        *)
(* Rounding of IEEE doubles is left out; Infinity, -Infinity, NaN and      *)
(* undefined are kept.                                                     *)
(***************************************************************************)
EXTENDS Integers, Sequences, FiniteSets, TLC

(***************************************************************************)
(* JavaScript numbers                                                      *)
(***************************************************************************)
Undefined == [k |-> "undefined", n |-> 0, d |-> 1, e |-> 0]

NaN == [k |-> "nan", n |-> 0, d |-> 1, e |-> 0]

PosInf == [k |-> "inf", n |-> 1, d |-> 1, e |-> 0]

NegInf == [k |-> "inf", n |-> -1, d |-> 1, e |-> 0]

Abs(i) == IF i < 0 THEN -i ELSE i

RECURSIVE GCD(_, _)
GCD(a, b) == IF b = 0 THEN a ELSE GCD(b, a % b)

RECURSIVE Pow10(_)
Pow10(k) == IF k <= 0 THEN 1 ELSE 10 * Pow10(k - 1)

\* Moves the factors 2 and 5 of the denominator into the decimal exponent.
RECURSIVE ClearDen(_, _, _)
ClearDen(n, d, e) ==
    IF d % 2 = 0 THEN ClearDen(n * 5, d \div 2, e - 1)
    ELSE IF d % 5 = 0 THEN ClearDen(n * 2, d \div 5, e - 1)
    ELSE [k |-> "fin", n |-> n, d |-> d, e |-> e]

\* Moves the factors 10 of the numerator into the decimal exponent.
RECURSIVE ClearNum(_)
ClearNum(x) ==
    IF x.n # 0 /\ x.n % 10 = 0
    THEN ClearNum([x EXCEPT !.n = x.n \div 10, !.e = x.e + 1])
    ELSE x

\* The finite number n/d * 10^e (d > 0) in its unique representation.
Fin(n, d, e) ==
    IF n = 0 THEN [k |-> "fin", n |-> 0, d |-> 1, e |-> 0]
    ELSE LET g == GCD(Abs(n), d) IN ClearNum(ClearDen(n \div g, d \div g, e))

Num(i) == Fin(i, 1, 0)

IsFin(x) == x.k = "fin"

\* ToNumber(undefined) is NaN.
ToNumber(x) == IF x.k = "undefined" THEN NaN ELSE x

Sign(x) == IF x.n > 0 THEN 1 ELSE IF x.n < 0 THEN -1 ELSE 0

Neg(x) == IF x.k = "nan" THEN x ELSE [x EXCEPT !.n = -x.n]

\* a + b
Add(a0, b0) ==
    LET a == ToNumber(a0)
        b == ToNumber(b0)
    IN  IF a.k = "nan" \/ b.k = "nan" THEN NaN
        ELSE IF a.k = "inf" /\ b.k = "inf" THEN (IF a.n = b.n THEN a ELSE NaN)
        ELSE IF a.k = "inf" THEN a
        ELSE IF b.k = "inf" THEN b
        ELSE LET m == IF a.e < b.e THEN a.e ELSE b.e
                 an == a.n * Pow10(a.e - m)
                 bn == b.n * Pow10(b.e - m)
             IN  Fin(an * b.d + bn * a.d, a.d * b.d, m)

\* a - b
Sub(a, b) == Add(a, Neg(ToNumber(b)))

\* a * b
Mul(a0, b0) ==
    LET a == ToNumber(a0)
        b == ToNumber(b0)
    IN  IF a.k = "nan" \/ b.k = "nan" THEN NaN
        ELSE IF a.k = "inf" \/ b.k = "inf"
             THEN (IF Sign(a) * Sign(b) = 0 THEN NaN
                   ELSE IF Sign(a) * Sign(b) > 0 THEN PosInf ELSE NegInf)
        ELSE LET g1 == GCD(Abs(a.n), b.d)
                 g2 == GCD(Abs(b.n), a.d)
             IN  IF a.n = 0 \/ b.n = 0 THEN Num(0)
                 ELSE Fin((a.n \div g1) * (b.n \div g2),
                          (a.d \div g2) * (b.d \div g1), a.e + b.e)

\* a / b: a finite number over zero is an infinity, zero over zero is NaN.
Div(a0, b0) ==
    LET a == ToNumber(a0)
        b == ToNumber(b0)
    IN  IF a.k = "nan" \/ b.k = "nan" THEN NaN
        ELSE IF a.k = "inf" /\ b.k = "inf" THEN NaN
        ELSE IF a.k = "inf" THEN (IF Sign(a) * Sign(b) < 0 THEN NegInf ELSE PosInf)
        ELSE IF b.k = "inf" THEN Num(0)
        ELSE IF b.n = 0
             THEN (IF a.n = 0 THEN NaN ELSE IF a.n > 0 THEN PosInf ELSE NegInf)
        ELSE LET s == IF b.n < 0 THEN -1 ELSE 1
             IN  Mul(a, [k |-> "fin", n |-> s * b.d, d |-> Abs(b.n), e |-> -b.e])

\* a < b, false whenever one of them is NaN.
Less(a0, b0) ==
    LET a == ToNumber(a0)
        b == ToNumber(b0)
    IN  /\ a.k # "nan"
        /\ b.k # "nan"
        /\ a # b
        /\ Sign(Sub(b, a)) > 0

\* A finite number that is not negative.
IsFiniteNonNeg(x) == x.k = "fin" /\ x.n >= 0

(***************************************************************************)
(* Strings are sequences of one-character strings.                        *)
(***************************************************************************)
DigitChars == <<"0", "1", "2", "3", "4", "5", "6", "7", "8", "9">>

IsDigit(c) == \E i \in 1..10 : DigitChars[i] = c

DigitVal(c) == (CHOOSE i \in 1..10 : DigitChars[i] = c) - 1

\* String.prototype.slice(k): the string from index k on.
Slice(s, k) == SubSeq(s, k + 1, Len(s))

\* String.prototype.startsWith
StartsWith(s, p) == Len(s) >= Len(p) /\ SubSeq(s, 1, Len(p)) = p

\* The length of the longest prefix of s made of digits.
RECURSIVE DigitRun(_)
DigitRun(s) ==
    IF s # <<>> /\ IsDigit(Head(s)) THEN 1 + DigitRun(Tail(s)) ELSE 0

RECURSIVE DigitsValue(_, _)
DigitsValue(s, acc) ==
    IF s = <<>> THEN acc ELSE DigitsValue(Tail(s), 10 * acc + DigitVal(Head(s)))

\* parseFloat: an optional sign, digits, an optional point and digits; what
\* follows is ignored; NaN when no digit is found.  (Exponents, leading white
\* space and the literal Infinity are not modelled.)
ParseFloat(s0) ==
    LET neg == s0 # <<>> /\ Head(s0) = "-"
        s == IF s0 # <<>> /\ Head(s0) \in {"-", "+"} THEN Tail(s0) ELSE s0
        ni == DigitRun(s)
        r == Slice(s, ni)
        point == r # <<>> /\ Head(r) = "."
        nf == IF point THEN DigitRun(Tail(r)) ELSE 0
        iv == DigitsValue(SubSeq(s, 1, ni), 0)
        fv == IF nf = 0 THEN 0 ELSE DigitsValue(SubSeq(Tail(r), 1, nf), 0)
        v == Fin(iv * Pow10(nf) + fv, 1, -nf)
    IN  IF ni = 0 /\ nf = 0 THEN NaN ELSE IF neg THEN Neg(v) ELSE v

(***************************************************************************)
(* The server-timing response header                                       *)
(***************************************************************************)
\* "cfRequestDuration;dur=": the 22 characters before the duration.
TimingPrefix ==
    <<"c", "f", "R", "e", "q", "u", "e", "s", "t", "D", "u", "r", "a", "t", "i",
      "o", "n", ";", "d", "u", "r", "=">>

\* The offset request() reads the duration from.
TimingOffset == 22

\* res.headers: what the server sent as server-timing, if anything.
NoHeader == [present |-> FALSE, text |-> <<>>]

Header(text) == [present |-> TRUE, text |-> text]

\* parseFloat(res.headers["server-timing"].slice(22)); slicing a missing header
\* is a TypeError, told apart by HeaderThrows.
HeaderThrows(h) == ~h.present

ServerTiming(h) == ParseFloat(Slice(h.text, TimingOffset))

(***************************************************************************)
(* Benchmark primitives                                                    *)
(***************************************************************************)
\* measureSpeed as it would be without the bits of a byte.
measureSpeedInBytes(bytes, duration) ==
    Div(Div(bytes, Div(duration, Num(1000))), Num(1000000))

measureSpeed(bytes, duration) ==
    Div(Div(Mul(bytes, Num(8)), Div(duration, Num(1000))), Num(1000000))

(***************************************************************************)
(* Math.min, Math.max and Number.prototype.toFixed                         *)
(***************************************************************************)
RECURSIVE MathMin(_)
MathMin(s) ==
    IF s = <<>> THEN PosInf
    ELSE LET h == ToNumber(Head(s))
             r == MathMin(Tail(s))
         IN  IF h.k = "nan" \/ r.k = "nan" THEN NaN
             ELSE IF Less(h, r) THEN h ELSE r

RECURSIVE MathMax(_)
MathMax(s) ==
    IF s = <<>> THEN NegInf
    ELSE LET h == ToNumber(Head(s))
             r == MathMax(Tail(s))
         IN  IF h.k = "nan" \/ r.k = "nan" THEN NaN
             ELSE IF Less(r, h) THEN h ELSE r

AbsNum(x) == IF x.k = "nan" THEN x ELSE [x EXCEPT !.n = Abs(x.n)]

\* The largest integer not above a finite x >= 0.
Floor(x) ==
    IF x.e >= 0 THEN (x.n * Pow10(x.e)) \div x.d
    ELSE x.n \div (x.d * Pow10(-x.e))

\* x.toFixed(2): the text of x to two decimals, as its sign and its number of
\* hundredths (a tie goes away from zero), or the text NaN or Infinity.
ToFixed2(x0) ==
    LET x == ToNumber(x0)
    IN  IF x.k = "nan" THEN [s |-> "NaN", neg |-> FALSE, h |-> 0]
        ELSE IF x.k = "inf" THEN [s |-> "Infinity", neg |-> x.n < 0, h |-> 0]
        ELSE [s |-> "num", neg |-> x.n < 0,
              h |-> Floor(Add(Mul(AbsNum(x), Num(100)), Fin(5, 1, -1)))]

(***************************************************************************)
(* stats.js, which request() and the runners do not contain: average,      *)
(* median, jitter and quartile as the specification describes them.        *)
(***************************************************************************)
RECURSIVE Insert(_, _)
Insert(x, s) ==
    IF s = <<>> THEN <<x>>
    ELSE IF Less(x, Head(s)) THEN <<x>> \o s
    ELSE <<Head(s)>> \o Insert(x, Tail(s))

\* A sorted copy; a NaN compares neither way and stays among its neighbours.
RECURSIVE Sorted(_)
Sorted(s) == IF s = <<>> THEN <<>> ELSE Insert(Head(s), Sorted(Tail(s)))

RECURSIVE Sum(_)
Sum(s) == IF s = <<>> THEN Num(0) ELSE Add(Head(s), Sum(Tail(s)))

\* The arithmetic mean; of an empty series it fails or is undefined
\* (AverageMayFail says when), and NaN stands for undefined.
average(s) == Div(Sum(s), Num(Len(s)))

AverageMayFail(s) == s = <<>>

median(s) ==
    LET t == Sorted(s)
        half == Len(s) \div 2
    IN  IF s = <<>> THEN NaN
        ELSE IF Len(s) % 2 = 1 THEN t[half + 1]
        ELSE Div(Add(t[half], t[half + 1]), Num(2))

jitter(s) ==
    IF Len(s) < 2 THEN Num(0)
    ELSE average([i \in 1..(Len(s) - 1) |-> AbsNum(Sub(s[i], s[i + 1]))])

quartile(s, q) ==
    LET t == Sorted(s)
        pos == Mul(q, Num(Len(s) - 1))
        base == Floor(pos)
        rest == Sub(pos, Num(base))
    IN  IF s = <<>> THEN NaN
        ELSE IF base + 2 <= Len(s)
             THEN Add(t[base + 1], Mul(rest, Sub(t[base + 2], t[base + 1])))
        ELSE t[base + 1]

(***************************************************************************)
(* The network, as the program meets it.  A script is what one transaction *)
(* will meet: whether the connection errors (at a phase chosen when it     *)
(* happens), how far the clock moves before each connection phase (gap)    *)
(* and while the body arrives (xfer), and the server-timing header.  The   *)
(* k-th trial of a series meets plan[k mod Period]; the plan is chosen     *)
(* freely, so every pattern of up to Period trials occurs, and longer      *)
(* series repeat it.                                                       *)
(***************************************************************************)
Period == 3

\* Slots for transactions in flight at the same time.
MaxTx == 2

\* Largest trial count of a runner called on its own.
MaxIter == 3

\* performance.now() when the program starts.
InitClock == 100

Nominal ==
    [name |-> "nominal", dns |-> TRUE, fate |-> "ok", gap |-> 10, xfer |-> 50,
     header |-> Header(TimingPrefix \o <<"1", "0">>)]

\* Nothing measurable passes between two readings of the clock, and the
\* server reports 2.5 ms.
Instant ==
    [name |-> "instant", dns |-> TRUE, fate |-> "ok", gap |-> 0, xfer |-> 0,
     header |-> Header(TimingPrefix \o <<"2", ".", "5">>)]

\* The connection errors; the clock stands still until it does.
ConnError ==
    [name |-> "connerror", dns |-> TRUE, fate |-> "error", gap |-> 0, xfer |-> 0,
     header |-> Header(TimingPrefix \o <<"1", "0">>)]

Headerless ==
    [name |-> "headerless", dns |-> TRUE, fate |-> "ok", gap |-> 10, xfer |-> 50,
     header |-> NoHeader]

\* A metric whose name is one character longer: the duration starts at 23.
Garbled ==
    [name |-> "garbled", dns |-> TRUE, fate |-> "ok", gap |-> 10, xfer |-> 50,
     header |-> Header(<<"x">> \o TimingPrefix \o <<"1", "0">>)]

\* The host is given as an address: nothing is resolved, and the socket has
\* no lookup event.
Addressed ==
    [name |-> "addressed", dns |-> FALSE, fate |-> "ok", gap |-> 10, xfer |-> 50,
     header |-> Header(TimingPrefix \o <<"1", "0">>)]

Scripts == {Nominal, Instant, ConnError, Headerless, Garbled}

\* The scripts request() called on its own is checked with, one after the
\* other, starting with any of them.
RequestScripts == <<Nominal, Addressed, ConnError>>

\* The scripts a whole run of speedTest is checked with.
RunScripts == {Nominal, ConnError}

TxIds == 1..MaxTx

ByteSizes == {1000, 1000000}

VARIABLES
    pc,        \* where speedTest (or the direct caller of a runner) stands
    tier,      \* the tier of the sweep speedTest is awaiting
    args,      \* the object parseArgs returned: the set of its keys
    flushing,  \* module variable flushing
    results,   \* module variable results
    stdout,    \* the lines written with console.log
    stderr,    \* the number of lines written with console.error
    run,       \* the frame of the running measureLatency/Download/Upload
    txs,       \* the transactions of request(), by slot
    clock,     \* performance.now()
    gets,      \* the two get() calls of step 1
    down,      \* testDown1 .. testDown5, as far as they are known
    up,        \* testUp1 .. testUp3, as far as they are known
    plan,      \* the scripts the network follows
    ret        \* what a runner called on its own returned

vars ==
    <<pc, tier, args, flushing, results, stdout, stderr, run, txs, clock, gets,
      down, up, plan, ret>>

(***************************************************************************)
(* request(): one timed transaction                                        *)
(***************************************************************************)
NoValue ==
    [started |-> Undefined, dnsLookup |-> Undefined, tcpHandshake |-> Undefined,
     sslHandshake |-> Undefined, ttfb |-> Undefined, ended |-> Undefined,
     serverTiming |-> Undefined]

FreeTx ==
    [st |-> "free", script |-> Nominal, ev |-> "none", method |-> "GET",
     bytes |-> 0, started |-> Undefined, dnsLookup |-> Undefined,
     tcpHandshake |-> Undefined, sslHandshake |-> Undefined, ttfb |-> Undefined,
     ended |-> Undefined, header |-> NoHeader, chunks |-> 0,
     promise |-> "none", value |-> NoValue]

\* The executor of request(): started is read, the request is created with
\* its socket and error listeners, written and ended.
NewTx(method, bytes, script, now) ==
    [FreeTx EXCEPT !.st = "open", !.script = script, !.ev = "request",
                   !.method = method, !.bytes = bytes, !.started = Num(now),
                   !.chunks = 1, !.promise = "pending"]

\* A transaction whose promise is settled and handled is garbage: its slot is
\* free for the next one.
Released ==
    [id \in TxIds |-> IF txs[id].promise = "pending" THEN txs[id] ELSE FreeTx]

FreeSlots == {id \in TxIds : Released[id].st = "free"}

FreeSlot == CHOOSE id \in FreeSlots : \A other \in FreeSlots : id <= other

\* The transactions whose promise is not settled yet.
InFlight == {id \in TxIds : txs[id].promise = "pending"}

(***************************************************************************)
(* The trial runners                                                       *)
(***************************************************************************)
NoRun ==
    [kind |-> "none", bytes |-> 0, iterations |-> 0, i |-> 0,
     measurements |-> <<>>, at |-> "none", tx |-> 0, attempts |-> 0,
     result |-> <<>>]

\* Trials of measureLatency, and the bytes each downloads.
LatencyTrials == 20

LatencyBytes == 1000

\* The script the network follows for trial i (counted from 0) of a series.
ScriptOf(i) == plan[(i % Period) + 1]

\* download(bytes) is a GET, upload(bytes) a POST of bytes characters.
MethodOf(kind) == IF kind = "upload" THEN "POST" ELSE "GET"

\* The measurements as they would be with the wrong interval: the latency
\* with the server's own time left in, the download over the whole
\* transaction, the upload over the time the client saw the answer arrive.
latencyWithServerTime(response) == Sub(response.ttfb, response.started)

downloadOverTransaction(bytes, response) ==
    measureSpeed(Num(bytes), Sub(response.ended, response.started))

uploadOverClientTime(bytes, response) ==
    measureSpeed(Num(bytes), Sub(response.ended, response.ttfb))

\* What the runner pushes for a resolved transaction.
latencyOf(response) ==
    Sub(Sub(response.ttfb, response.started), response.serverTiming)

downloadOf(bytes, response) ==
    measureSpeed(Num(bytes), Sub(response.ended, response.ttfb))

uploadOf(bytes, response) == measureSpeed(Num(bytes), response.serverTiming)

Measurement(kind, bytes, response) ==
    IF kind = "latency" THEN latencyOf(response)
    ELSE IF kind = "download" THEN downloadOf(bytes, response)
    ELSE uploadOf(bytes, response)

\* What measureLatency would return if the series were sorted in place by
\* the time the jitter is taken.
LatencyReturnsAfterSort(m) ==
    {[threw |-> FALSE,
      value |-> <<MathMin(m), MathMax(m), average(m), median(m), jitter(Sorted(m))>>]}
    \cup (IF AverageMayFail(m) THEN {[threw |-> TRUE, value |-> <<>>]} ELSE {})

\* What measureLatency returns, or that stats.average failed.
LatencyReturns(m) ==
    {[threw |-> FALSE,
      value |-> <<MathMin(m), MathMax(m), average(m), median(m), jitter(m)>>]}
    \cup (IF AverageMayFail(m) THEN {[threw |-> TRUE, value |-> <<>>]} ELSE {})

\* The loop as it would be with the try around it: the first failed trial
\* ends it.
LoopIssuesUntilFailure(r) == r.i < r.iterations /\ Len(r.measurements) = r.i

\* The loop test of a runner with i set: the next transaction is issued and
\* awaited, or the function returns.
LoopIssues(r) == r.i < r.iterations

LoopAwait(r) == [r EXCEPT !.at = "await", !.tx = FreeSlot, !.attempts = r.attempts + 1]

LoopTxs(r) ==
    [Released EXCEPT ![FreeSlot] = NewTx(MethodOf(r.kind), r.bytes, ScriptOf(r.i), clock)]

LoopReturns(r) ==
    IF r.kind = "latency"
    THEN {[r EXCEPT !.at = IF o.threw THEN "threw" ELSE "returned", !.tx = 0,
                     !.result = o.value] : o \in LatencyReturns(r.measurements)}
    ELSE {[r EXCEPT !.at = "returned", !.tx = 0, !.result = r.measurements]}

\* The for loop at its test.
Loop(r) ==
    IF LoopIssues(r)
    THEN /\ FreeSlots # {}
         /\ run' = LoopAwait(r)
         /\ txs' = LoopTxs(r)
    ELSE /\ run' \in LoopReturns(r)
         /\ txs' = txs

\* A call of a runner up to its first await.
Call(kind, bytes, n) ==
    Loop([NoRun EXCEPT !.kind = kind, !.bytes = bytes, !.iterations = n])

(***************************************************************************)
(* get() and the two lookups of step 1                                     *)
(***************************************************************************)
GetNames == {"locations", "trace"}

\* What the service answers: the records of /locations, and the lines of
\* /cdn-cgi/trace split at "=" (the last line is empty).
LocationsBody ==
    <<[iata |-> "IAD", city |-> "Ashburn"], [iata |-> "LHR", city |-> "London"]>>

TraceBody ==
    <<<<"ip", "192.0.2.1">>, <<"loc", "US">>, <<"colo", "IAD">>, <<"">>>>

BodyOf(g) == IF g = "locations" THEN LocationsBody ELSE TraceBody

UnsentGet == [st |-> "unsent", body |-> <<>>, left |-> 0]

\* https.request and req.end(): the request is on its way, one chunk to come.
SentGet == [st |-> "sent", body |-> <<>>, left |-> 1]

\* fetchServerLocationData: the city of every iata code, and the look-up
\* serverLocationData[colo], undefined for a code that is not listed.
CityOf(list, colo) ==
    LET hits == {i \in 1..Len(list) : list[i].iata = colo}
    IN  IF hits = {} THEN "undefined"
        ELSE list[CHOOSE i \in hits : \A j \in hits : j <= i].city

\* parseCfCdnCgiTrace: the value of key k, a line without "=" being skipped.
TraceValue(lines, k) ==
    LET hits == {i \in 1..Len(lines) : Len(lines[i]) >= 2 /\ lines[i][1] = k}
    IN  IF hits = {} THEN "undefined"
        ELSE lines[CHOOSE i \in hits : \A j \in hits : j <= i][2]

(***************************************************************************)
(* Console output and the report                                           *)
(***************************************************************************)
NoFixed == [s |-> "NaN", neg |-> FALSE, h |-> 0]

NoResults ==
    [set |-> FALSE, server_location |-> <<"", "">>, your_ip |-> <<"", "">>,
     latency |-> [min |-> NoFixed, max |-> NoFixed, average |-> NoFixed,
                  median |-> NoFixed, jitter |-> NoFixed],
     download_speeds |-> <<>>, upload_speeds |-> <<>>]

Line(k, a, b) == [k |-> k, a |-> a, b |-> b]

logInfo(f, out, text, data) ==
    IF f THEN Append(out, Line("info", text, data)) ELSE out

\* logLatency as it would be without the test of flushing.
logLatencyAlways(f, out, data) ==
    out \o <<Line("latency", "Latency", data.median),
             Line("latency", "Jitter", data.jitter)>>

logLatency(f, out, data) ==
    IF f THEN out \o <<Line("latency", "Latency", data.median),
                       Line("latency", "Jitter", data.jitter)>>
    ELSE out

\* logSpeedTestResult, logDownloadSpeed and logUploadSpeed print when flushing
\* and push to the report otherwise.
logSpeedTestResultOut(f, out, display_size, test) ==
    IF f THEN Append(out, Line("speed", display_size, ToFixed2(median(test))))
    ELSE out

logSpeedTestResultRes(f, res, display_size, test) ==
    IF f THEN res
    ELSE [res EXCEPT !.download_speeds =
              Append(@, [size |-> display_size, speed |-> ToFixed2(median(test))])]

NinetyPercent == Fin(9, 1, -1)

logDownloadSpeedOut(f, out, tests) ==
    IF f THEN Append(out, Line("speed", "Download speed", ToFixed2(quartile(tests, NinetyPercent))))
    ELSE out

logDownloadSpeedRes(f, res, tests) ==
    IF f THEN res
    ELSE [res EXCEPT !.download_speeds =
              Append(@, [size |-> "overall", speed |-> ToFixed2(quartile(tests, NinetyPercent))])]

logUploadSpeedOut(f, out, tests) ==
    IF f THEN Append(out, Line("speed", "Upload speed", ToFixed2(quartile(tests, NinetyPercent))))
    ELSE out

logUploadSpeedRes(f, res, tests) ==
    IF f THEN res
    ELSE [res EXCEPT !.upload_speeds =
              Append(@, [size |-> "overall", speed |-> ToFixed2(quartile(tests, NinetyPercent))])]

(***************************************************************************)
(* parseArgs                                                               *)
(***************************************************************************)
NodeArg == <<"n", "o", "d", "e">>

ScriptArg == <<"c", "l", "i", ".", "j", "s">>

JsonFlag == <<"-", "-", "j", "s", "o", "n">>

JsonKey == <<"j", "s", "o", "n">>

\* The command lines tried: no argument, and --json.
ProcessArgvs ==
    {<<NodeArg, ScriptArg>>,
     <<NodeArg, ScriptArg, JsonFlag>>}

\* The name Object.prototype has a setter for: args[name] = true with this
\* name calls the setter, which ignores a value that is no object, and no
\* key is added.
ProtoKey == <<"_", "_", "p", "r", "o", "t", "o", "_", "_">>

\* The keys of the object parseArgs returns, each of them mapped to true.
parseArgs(argv) ==
    LET rest == Slice(argv, 2)
    IN  {Slice(rest[i], 2) :
            i \in {j \in 1..Len(rest) : StartsWith(rest[j], <<"-", "-">>)}}
        \ {ProtoKey}

\* The arguments parseArgs is tried with, and the command lines of up to
\* MaxArgs of them.
MaxArgs == 2

Arguments ==
    {JsonFlag, JsonKey, <<"-", "-">>, <<"-", "j">>, <<"-", "-", "v">>,
     <<"-", "-">> \o ProtoKey}

ArgvsOf(n) == {<<NodeArg, ScriptArg>> \o rest : rest \in [1..n -> Arguments]}

TriedArgvs == UNION {ArgvsOf(n) : n \in 0..MaxArgs}

\* The byte counts and the durations measureSpeed is tried with.
MaxDuration == 10

TriedBytes == {0, 1, 1000, 101000, 1000000}

TriedDurations == (1..MaxDuration) \cup {50, 1000}

(***************************************************************************)
(* speedTest's tiers                                                       *)
(***************************************************************************)
\* The download tiers as they would be with the largest first.
DownloadTiersLargestFirst ==
    <<[size |-> "100MB", bytes |-> 100001000, n |-> 1],
      [size |-> "25MB", bytes |-> 25001000, n |-> 4],
      [size |-> "10MB", bytes |-> 10001000, n |-> 6],
      [size |-> "1MB", bytes |-> 1001000, n |-> 8],
      [size |-> "100kB", bytes |-> 101000, n |-> 10]>>

DownloadTiers ==
    <<[size |-> "100kB", bytes |-> 101000, n |-> 10],
      [size |-> "1MB", bytes |-> 1001000, n |-> 8],
      [size |-> "10MB", bytes |-> 10001000, n |-> 6],
      [size |-> "25MB", bytes |-> 25001000, n |-> 4],
      [size |-> "100MB", bytes |-> 100001000, n |-> 1]>>

\* The upload tiers as they would be with more trials for the largest.
UploadTiersMoreForLargest ==
    <<[bytes |-> 11000, n |-> 8],
      [bytes |-> 101000, n |-> 10],
      [bytes |-> 1001000, n |-> 10]>>

UploadTiers ==
    <<[bytes |-> 11000, n |-> 10],
      [bytes |-> 101000, n |-> 10],
      [bytes |-> 1001000, n |-> 8]>>

\* The trial counts a runner called on its own is given: every count up to
\* MaxIter, and the counts speedTest uses.
IterChoices ==
    (0..MaxIter) \cup {DownloadTiers[k].n : k \in 1..Len(DownloadTiers)}

RECURSIVE Concat(_)
Concat(ss) == IF ss = <<>> THEN <<>> ELSE Head(ss) \o Concat(Tail(ss))

(***************************************************************************)
(* Which continuation is due.  An I/O handler runs only when none is.      *)
(***************************************************************************)
CanThen == run.at = "await" /\ txs[run.tx].promise \in {"resolved", "rejected"}

\* The loop as it would be without the await: it goes on while the
\* transaction is still pending.
CanNextUnawaited == run.at \in {"next", "await"}

CanNext == run.at = "next"

\* The fan-in as it would be if one lookup were enough.
CanFanInOneLookup ==
    /\ pc = "fanout"
    /\ run.at = "returned"
    /\ \E g \in GetNames : gets[g].st = "resolved"

CanFanIn ==
    /\ pc = "fanout"
    /\ run.at = "returned"
    /\ \A g \in GetNames : gets[g].st = "resolved"

CanFanReject ==
    /\ pc = "fanout"
    /\ (run.at = "threw" \/ \E g \in GetNames : gets[g].st = "rejected")

CanTier == pc \in {"down", "up"} /\ run.at = "returned"

CanDirectReturn == pc = "direct" /\ run.at \in {"returned", "threw"}

Quiet ==
    /\ pc # "crashed"
    /\ ~(CanThen \/ CanNext \/ CanFanIn \/ CanFanReject \/ CanTier \/ CanDirectReturn)

\* The state the module is loaded in, whatever the network will do.
Loaded ==
    /\ pc = "init"
    /\ tier = 0
    /\ args = {}
    /\ flushing = TRUE
    /\ results = NoResults
    /\ stdout = <<>>
    /\ stderr = 0
    /\ run = NoRun
    /\ txs = [id \in TxIds |-> FreeTx]
    /\ clock = InitClock
    /\ gets = [g \in GetNames |-> UnsentGet]
    /\ down = <<>>
    /\ up = <<>>
    /\ ret = [state |-> "none", value |-> <<>>]

Init == Loaded /\ plan \in [1..Period -> RunScripts]

InitRunner == Loaded /\ plan \in [1..Period -> Scripts]

InitRequest ==
    /\ Loaded
    /\ \E first \in 1..Len(RequestScripts) :
           plan = [i \in 1..Period |->
                      RequestScripts[((i + first) % Len(RequestScripts)) + 1]]

(***************************************************************************)
(* The handlers of request()                                               *)
(***************************************************************************)
\* The transaction id can still receive events.
Open(id) == Quiet /\ txs[id].st = "open"

\* req 'socket': the three once-listeners are put on the socket.
OnSocket(id) ==
    /\ Open(id)
    /\ txs[id].ev = "request"
    /\ txs' = [txs EXCEPT ![id].ev = "socket"]
    /\ UNCHANGED <<pc, tier, args, flushing, results, stdout, stderr, run, clock,
                   gets, down, up, plan, ret>>

\* socket 'lookup' as it would be with dnsLookup a variable of the module,
\* one for all transactions.
OnLookupShared(id) ==
    /\ Open(id)
    /\ txs[id].ev = "socket"
    /\ txs[id].script.dns
    /\ clock' = clock + txs[id].script.gap
    /\ txs' = [j \in TxIds |->
                  IF j = id
                  THEN [txs[j] EXCEPT !.ev = "lookup", !.dnsLookup = Num(clock')]
                  ELSE IF txs[j].st = "open"
                       THEN [txs[j] EXCEPT !.dnsLookup = Num(clock')]
                       ELSE txs[j]]
    /\ UNCHANGED <<pc, tier, args, flushing, results, stdout, stderr, run, gets,
                   down, up, plan, ret>>

\* socket 'lookup'
OnLookup(id) ==
    /\ Open(id)
    /\ txs[id].ev = "socket"
    /\ txs[id].script.dns
    /\ clock' = clock + txs[id].script.gap
    /\ txs' = [txs EXCEPT ![id].ev = "lookup", ![id].dnsLookup = Num(clock')]
    /\ UNCHANGED <<pc, tier, args, flushing, results, stdout, stderr, run, gets,
                   down, up, plan, ret>>

\* socket 'connect'
OnConnect(id) ==
    /\ Open(id)
    /\ txs[id].ev = (IF txs[id].script.dns THEN "lookup" ELSE "socket")
    /\ clock' = clock + txs[id].script.gap
    /\ txs' = [txs EXCEPT ![id].ev = "connect", ![id].tcpHandshake = Num(clock')]
    /\ UNCHANGED <<pc, tier, args, flushing, results, stdout, stderr, run, gets,
                   down, up, plan, ret>>

\* socket 'secureConnect'
OnSecureConnect(id) ==
    /\ Open(id)
    /\ txs[id].ev = "connect"
    /\ clock' = clock + txs[id].script.gap
    /\ txs' = [txs EXCEPT ![id].ev = "secureConnect",
                          ![id].sslHandshake = Num(clock')]
    /\ UNCHANGED <<pc, tier, args, flushing, results, stdout, stderr, run, gets,
                   down, up, plan, ret>>

\* The response callback: the headers are there, and the readable, data and
\* end listeners are put on the response.
OnResponse(id) ==
    /\ Open(id)
    /\ txs[id].ev = "secureConnect"
    /\ clock' = clock + txs[id].script.gap
    /\ txs' = [txs EXCEPT ![id].ev = "response",
                          ![id].header = txs[id].script.header]
    /\ UNCHANGED <<pc, tier, args, flushing, results, stdout, stderr, run, gets,
                   down, up, plan, ret>>

\* res 'readable', once
\* res 'readable' as it would be if the time of the first byte were not
\* read.
OnReadableUntimed(id) ==
    /\ Open(id)
    /\ txs[id].ev = "response"
    /\ clock' = clock + txs[id].script.gap
    /\ txs' = [txs EXCEPT ![id].ev = "readable"]
    /\ UNCHANGED <<pc, tier, args, flushing, results, stdout, stderr, run, gets,
                   down, up, plan, ret>>

OnReadable(id) ==
    /\ Open(id)
    /\ txs[id].ev = "response"
    /\ clock' = clock + txs[id].script.gap
    /\ txs' = [txs EXCEPT ![id].ev = "readable", ![id].ttfb = Num(clock')]
    /\ UNCHANGED <<pc, tier, args, flushing, results, stdout, stderr, run, gets,
                   down, up, plan, ret>>

\* res 'data': the chunk is dropped.
OnData(id) ==
    /\ Open(id)
    /\ txs[id].ev = "readable"
    /\ txs[id].chunks > 0
    /\ clock' = clock + txs[id].script.xfer
    /\ txs' = [txs EXCEPT ![id].ev = "data", ![id].chunks = @ - 1]
    /\ UNCHANGED <<pc, tier, args, flushing, results, stdout, stderr, run, gets,
                   down, up, plan, ret>>

\* res 'end': ended is read and the promise resolved with the timestamps and
\* the parsed server-timing; slicing a missing header throws in the listener,
\* outside every promise, and the uncaught exception ends the process.
OnEnd(id) ==
    /\ Open(id)
    /\ txs[id].ev = "data"
    /\ txs[id].chunks = 0
    /\ txs[id].script.fate = "ok"
    /\ LET t == txs[id]
           now == Num(clock)
       IN  IF HeaderThrows(t.header)
           THEN /\ txs' = [txs EXCEPT ![id].ev = "end", ![id].st = "closed",
                                      ![id].ended = now]
                /\ pc' = "crashed"
           ELSE /\ txs' = [txs EXCEPT
                              ![id].ev = "end", ![id].st = "closed",
                              ![id].ended = now,
                              ![id].promise = IF t.promise = "pending"
                                              THEN "resolved" ELSE t.promise,
                              ![id].value =
                                  IF t.promise = "pending"
                                  THEN [started |-> t.started,
                                        dnsLookup |-> t.dnsLookup,
                                        tcpHandshake |-> t.tcpHandshake,
                                        sslHandshake |-> t.sslHandshake,
                                        ttfb |-> t.ttfb, ended |-> now,
                                        serverTiming |-> ServerTiming(t.header)]
                                  ELSE t.value]
                /\ pc' = pc
    /\ UNCHANGED <<tier, args, flushing, results, stdout, stderr, run, clock,
                   gets, down, up, plan, ret>>

\* req 'error' as it would be with the listener put on in the response
\* callback, as get() does: before the response nothing listens, and the
\* process ends with the promise pending.
OnErrorHeardAfterResponse(id) ==
    /\ Open(id)
    /\ txs[id].script.fate = "error"
    /\ IF txs[id].ev \in {"response", "readable", "data"}
       THEN /\ txs' = [txs EXCEPT ![id].ev = "error", ![id].st = "closed",
                                  ![id].promise = "rejected"]
            /\ pc' = pc
       ELSE /\ txs' = [txs EXCEPT ![id].ev = "error", ![id].st = "closed"]
            /\ pc' = "crashed"
    /\ UNCHANGED <<tier, args, flushing, results, stdout, stderr, run, clock,
                   gets, down, up, plan, ret>>

\* req 'error', at whatever phase the connection fails: the promise is
\* rejected.
OnError(id) ==
    /\ Open(id)
    /\ txs[id].script.fate = "error"
    /\ txs' = [txs EXCEPT ![id].ev = "error", ![id].st = "closed",
                          ![id].promise = IF @ = "pending" THEN "rejected" ELSE @]
    /\ UNCHANGED <<pc, tier, args, flushing, results, stdout, stderr, run, clock,
                   gets, down, up, plan, ret>>

(***************************************************************************)
(* The continuations of a runner                                           *)
(***************************************************************************)
\* The callbacks given to then: the measurement is pushed, or the error is
\* written to the error stream.
TrialThen ==
    /\ pc # "crashed"
    /\ CanThen
    /\ LET t == txs[run.tx]
       IN  IF t.promise = "resolved"
           THEN /\ run' = [run EXCEPT
                              !.measurements =
                                  Append(@, Measurement(run.kind, run.bytes, t.value)),
                              !.at = "next"]
                /\ stderr' = stderr
           ELSE /\ run' = [run EXCEPT !.at = "next"]
                /\ stderr' = stderr + 1
    /\ UNCHANGED <<pc, tier, args, flushing, results, stdout, txs, clock, gets,
                   down, up, plan, ret>>

\* After the await: i += 1 and the loop test.
TrialNext ==
    /\ pc # "crashed"
    /\ CanNext
    /\ Loop([run EXCEPT !.i = run.i + 1])
    /\ UNCHANGED <<pc, tier, args, flushing, results, stdout, stderr, clock, gets,
                   down, up, plan, ret>>

(***************************************************************************)
(* A runner called on its own, as the tests call it                        *)
(***************************************************************************)
DirectLatency ==
    /\ pc = "init"
    /\ pc' = "direct"
    /\ Call("latency", LatencyBytes, LatencyTrials)
    /\ UNCHANGED <<tier, args, flushing, results, stdout, stderr, clock, gets,
                   down, up, plan, ret>>

DirectTransfer ==
    /\ pc = "init"
    /\ pc' = "direct"
    /\ \E kind \in {"download", "upload"}, bytes \in ByteSizes, n \in IterChoices :
           Call(kind, bytes, n)
    /\ UNCHANGED <<tier, args, flushing, results, stdout, stderr, clock, gets,
                   down, up, plan, ret>>

DirectReturn ==
    /\ CanDirectReturn
    /\ pc' = "done"
    /\ ret' = [state |-> IF run.at = "threw" THEN "threw" ELSE "value",
               value |-> run.result]
    /\ run' = NoRun
    /\ UNCHANGED <<tier, args, flushing, results, stdout, stderr, txs, clock,
                   gets, down, up, plan>>

(***************************************************************************)
(* request() called on its own, a call not waiting for the one before      *)
(***************************************************************************)
\* The two calls that overlap, by the slot of their transaction.
OverlappingCalls == {1, 2}

\* The executor of a call of request(), for a download of 1000 bytes: the
\* first call, or the second while the first is under way or over.
DirectRequest ==
    /\ pc \in {"init", "requests"}
    /\ \E id \in OverlappingCalls :
           /\ txs[id].promise = "none"
           /\ \A before \in 1..(id - 1) : txs[before].promise # "none"
           /\ txs' = [txs EXCEPT ![id] = NewTx("GET", LatencyBytes, ScriptOf(id - 1),
                                                clock)]
    /\ pc' = "requests"
    /\ UNCHANGED <<tier, args, flushing, results, stdout, stderr, run, clock, gets,
                   down, up, plan, ret>>

(***************************************************************************)
(* measureSpeed and parseArgs called on their own                          *)
(***************************************************************************)
InitPure ==
    /\ pc = "pure"
    /\ tier = 0
    /\ args = {}
    /\ flushing = TRUE
    /\ results = NoResults
    /\ stdout = <<>>
    /\ stderr = 0
    /\ run = NoRun
    /\ txs = [id \in TxIds |-> FreeTx]
    /\ clock = InitClock
    /\ gets = [g \in GetNames |-> UnsentGet]
    /\ down = <<>>
    /\ up = <<>>
    /\ plan = [i \in 1..Period |-> Nominal]
    /\ \/ \E b \in TriedBytes, d \in TriedDurations :
              ret = [state |-> "measureSpeed", value |-> <<b, d>>]
       \/ \E argv \in TriedArgvs : ret = [state |-> "parseArgs", value |-> argv]

CallMeasureSpeed ==
    /\ ret.state = "measureSpeed"
    /\ ret' = [state |-> "speed",
               value |-> <<ret.value[1], ret.value[2],
                           measureSpeed(Num(ret.value[1]), Num(ret.value[2]))>>]
    /\ UNCHANGED <<pc, tier, args, flushing, results, stdout, stderr, run, txs,
                   clock, gets, down, up, plan>>

\* process.argv is set and parseArgs called.
CallParseArgs ==
    /\ ret.state = "parseArgs"
    /\ args' = parseArgs(ret.value)
    /\ ret' = [state |-> "args", value |-> ret.value]
    /\ UNCHANGED <<pc, tier, flushing, results, stdout, stderr, run, txs, clock,
                   gets, down, up, plan>>

(***************************************************************************)
(* The handlers of get()                                                   *)
(***************************************************************************)
\* The response callback: the data, end and error listeners are put on.
GetResponse(g) ==
    /\ Quiet
    /\ gets[g].st = "sent"
    /\ gets' = [gets EXCEPT ![g].st = "response"]
    /\ UNCHANGED <<pc, tier, args, flushing, results, stdout, stderr, run, txs,
                   clock, down, up, plan, ret>>

\* res 'data': the chunk is kept.
GetData(g) ==
    /\ Quiet
    /\ gets[g].st = "response"
    /\ gets[g].left > 0
    /\ gets' = [gets EXCEPT ![g].body = Append(@, BodyOf(g)), ![g].left = @ - 1]
    /\ UNCHANGED <<pc, tier, args, flushing, results, stdout, stderr, run, txs,
                   clock, down, up, plan, ret>>

\* res 'end': the promise is resolved with the chunks put together.
GetEnd(g) ==
    /\ Quiet
    /\ gets[g].st = "response"
    /\ gets[g].left = 0
    /\ gets' = [gets EXCEPT ![g].st = "resolved"]
    /\ UNCHANGED <<pc, tier, args, flushing, results, stdout, stderr, run, txs,
                   clock, down, up, plan, ret>>

\* req 'error' once the response callback has put the listener on: the
\* promise is rejected.
GetErrorLate(g) ==
    /\ Quiet
    /\ gets[g].st = "response"
    /\ gets' = [gets EXCEPT ![g].st = "rejected"]
    /\ UNCHANGED <<pc, tier, args, flushing, results, stdout, stderr, run, txs,
                   clock, down, up, plan, ret>>

\* req 'error' before any response: nothing listens, the event is thrown as
\* an uncaught exception and the process ends.
GetErrorEarly(g) ==
    /\ Quiet
    /\ gets[g].st = "sent"
    /\ gets' = [gets EXCEPT ![g].st = "failed"]
    /\ pc' = "crashed"
    /\ UNCHANGED <<tier, args, flushing, results, stdout, stderr, run, txs,
                   clock, down, up, plan, ret>>

(***************************************************************************)
(* speedTest                                                               *)
(***************************************************************************)
\* Up to the await of Promise.all: the arguments are parsed, measureLatency
\* issues its first transaction, and the two lookups are sent.
SpeedTest ==
    /\ pc = "init"
    /\ \E argv \in ProcessArgvs : args' = parseArgs(argv)
    /\ Call("latency", LatencyBytes, LatencyTrials)
    /\ gets' = [g \in GetNames |-> SentGet]
    /\ pc' = "fanout"
    /\ UNCHANGED <<tier, flushing, results, stdout, stderr, clock, down, up, plan,
                   ret>>

\* One of the three promises is rejected: so is Promise.all, and speedTest
\* with it.  What is still running goes on.
FanoutRejected ==
    /\ CanFanReject
    /\ pc' = "rejected"
    /\ UNCHANGED <<tier, args, flushing, results, stdout, stderr, run, txs, clock,
                   gets, down, up, plan, ret>>

\* All three are resolved: the output mode is set, the report is created,
\* the two labels and the latency are logged, and the first download tier
\* starts.
AfterFanout ==
    /\ CanFanIn
    /\ LET ping == run.result
           f == JsonKey \notin args
           trace == Concat(gets["trace"].body)
           colo == TraceValue(trace, "colo")
           city == CityOf(Concat(gets["locations"].body), colo)
           res == [set |-> TRUE,
                   server_location |-> <<city, colo>>,
                   your_ip |-> <<TraceValue(trace, "ip"), TraceValue(trace, "loc")>>,
                   latency |-> [min |-> ToFixed2(ping[1]), max |-> ToFixed2(ping[2]),
                                average |-> ToFixed2(ping[3]),
                                median |-> ToFixed2(ping[4]),
                                jitter |-> ToFixed2(ping[5])],
                   download_speeds |-> <<>>, upload_speeds |-> <<>>]
       IN  /\ flushing' = f
           /\ results' = res
           /\ stdout' = logLatency(f,
                            logInfo(f,
                                logInfo(f, stdout, "Server Location", res.server_location),
                                "Your IP", res.your_ip),
                            res.latency)
    /\ pc' = "down"
    /\ tier' = 1
    /\ Call("download", DownloadTiers[1].bytes, DownloadTiers[1].n)
    /\ UNCHANGED <<args, stderr, clock, gets, down, up, plan, ret>>

\* A download tier but the last has returned: it is reported and the next
\* one starts.
DownloadTierDone ==
    /\ CanTier
    /\ pc = "down"
    /\ tier < Len(DownloadTiers)
    /\ down' = Append(down, run.result)
    /\ stdout' = logSpeedTestResultOut(flushing, stdout, DownloadTiers[tier].size, run.result)
    /\ results' = logSpeedTestResultRes(flushing, results, DownloadTiers[tier].size, run.result)
    /\ tier' = tier + 1
    /\ Call("download", DownloadTiers[tier + 1].bytes, DownloadTiers[tier + 1].n)
    /\ UNCHANGED <<pc, args, flushing, stderr, clock, gets, up, plan, ret>>

\* The last download tier has returned: it is reported, then the overall
\* download speed, and the first upload tier starts.
DownloadSweepDone ==
    /\ CanTier
    /\ pc = "down"
    /\ tier = Len(DownloadTiers)
    /\ down' = Append(down, run.result)
    /\ LET downloadTests == Concat(down')
       IN  /\ stdout' = logDownloadSpeedOut(flushing,
                            logSpeedTestResultOut(flushing, stdout,
                                DownloadTiers[tier].size, run.result),
                            downloadTests)
           /\ results' = logDownloadSpeedRes(flushing,
                             logSpeedTestResultRes(flushing, results,
                                 DownloadTiers[tier].size, run.result),
                             downloadTests)
    /\ pc' = "up"
    /\ tier' = 1
    /\ Call("upload", UploadTiers[1].bytes, UploadTiers[1].n)
    /\ UNCHANGED <<args, flushing, stderr, clock, gets, up, plan, ret>>

\* An upload tier but the last has returned: the next one starts.
UploadTierDone ==
    /\ CanTier
    /\ pc = "up"
    /\ tier < Len(UploadTiers)
    /\ up' = Append(up, run.result)
    /\ tier' = tier + 1
    /\ Call("upload", UploadTiers[tier + 1].bytes, UploadTiers[tier + 1].n)
    /\ UNCHANGED <<pc, args, flushing, results, stdout, stderr, clock, gets, down,
                   plan, ret>>

\* The last upload tier has returned: the overall upload speed is reported
\* and, with --json, the report is printed.
UploadSweepDone ==
    /\ CanTier
    /\ pc = "up"
    /\ tier = Len(UploadTiers)
    /\ up' = Append(up, run.result)
    /\ LET uploadTests == Concat(up')
           res == logUploadSpeedRes(flushing, results, uploadTests)
           out == logUploadSpeedOut(flushing, stdout, uploadTests)
       IN  /\ results' = res
           /\ stdout' = IF JsonKey \in args
                        THEN Append(out, Line("json", "results", res))
                        ELSE out
    /\ pc' = "done"
    /\ run' = NoRun
    /\ UNCHANGED <<tier, args, flushing, stderr, txs, clock, gets, down, plan, ret>>

TxEvent ==
    \E id \in TxIds :
        \/ OnSocket(id)
        \/ OnLookup(id)
        \/ OnConnect(id)
        \/ OnSecureConnect(id)
        \/ OnResponse(id)
        \/ OnReadable(id)
        \/ OnData(id)
        \/ OnEnd(id)
        \/ OnError(id)

GetEvent ==
    \E g \in GetNames :
        \/ GetResponse(g)
        \/ GetData(g)
        \/ GetEnd(g)
        \/ GetErrorLate(g)
        \/ GetErrorEarly(g)

\* A run of speedTest.
Next ==
    \/ TxEvent
    \/ TrialThen
    \/ TrialNext
    \/ GetEvent
    \/ SpeedTest
    \/ FanoutRejected
    \/ AfterFanout
    \/ DownloadTierDone
    \/ DownloadSweepDone
    \/ UploadTierDone
    \/ UploadSweepDone

Spec == Init /\ [][Next]_vars

\* One call of a runner.
NextRunner ==
    \/ TxEvent
    \/ TrialThen
    \/ TrialNext
    \/ DirectLatency
    \/ DirectTransfer
    \/ DirectReturn

SpecRunner == InitRunner /\ [][NextRunner]_vars

\* Calls of request() that overlap.
NextRequest ==
    \/ TxEvent
    \/ DirectRequest

SpecRequest == InitRequest /\ [][NextRequest]_vars

\* Calls of the two functions that wait for nothing.
NextPure ==
    \/ CallMeasureSpeed
    \/ CallParseArgs

SpecPure == InitPure /\ [][NextPure]_vars

(***************************************************************************)
(* C1                                                                      *)
(***************************************************************************)
\* Trial i of a series succeeds when the connection it meets does not error.
TrialSucceeds(i) == ScriptOf(i).fate = "ok"

\* What a successful trial measures, from what the network did to it: the
\* clock moved by xfer while the body arrived, and the server reported the
\* duration in its header.
TrialMeasures(kind, bytes, i) ==
    IF kind = "download" THEN measureSpeed(Num(bytes), Num(ScriptOf(i).xfer))
    ELSE measureSpeed(Num(bytes), ServerTiming(ScriptOf(i).header))

\* One measurement for every successful trial among the first n, in the
\* order the trials ran.
RECURSIVE SuccessesInOrder(_, _, _)
SuccessesInOrder(kind, bytes, n) ==
    IF n = 0 THEN <<>>
    ELSE IF TrialSucceeds(n - 1)
         THEN Append(SuccessesInOrder(kind, bytes, n - 1),
                     TrialMeasures(kind, bytes, n - 1))
         ELSE SuccessesInOrder(kind, bytes, n - 1)

\* C1: measureDownload(bytes, n) and measureUpload(bytes, n) never throw,
\* never attempt more than n transactions, and return only after exactly n
\* attempts (a failed trial is neither retried nor the end of the loop) with
\* one measurement for each successful trial, in the order the trials ran;
\* n failed trials give the empty series.
RunnerSeriesIsSuccessesInOrder ==
    run.kind \in {"download", "upload"} =>
        /\ run.at # "threw"
        /\ run.attempts <= run.iterations
        /\ run.at = "returned" =>
               /\ run.attempts = run.iterations
               /\ run.result = SuccessesInOrder(run.kind, run.bytes, run.iterations)
               /\ (\A i \in 0..(run.iterations - 1) : ~TrialSucceeds(i))
                      => run.result = <<>>

\* Ten trials of which every third failed have returned seven measurements.
TenTrialsEveryThirdFailing ==
    /\ run.kind = "download"
    /\ run.at = "returned"
    /\ run.iterations = 10
    /\ \A i \in 0..9 : TrialSucceeds(i) <=> (i % 3 # 2)
    /\ stderr = 3
    /\ Len(run.result) = 7

(***************************************************************************)
(* C2                                                                      *)
(***************************************************************************)
\* C2: during speedTest at most one transaction of request() is in flight
\* at any moment: a trial is issued only once the one before it, in the same
\* tier or in the tier before, is resolved or rejected.
AtMostOneInFlight == Cardinality(InFlight) <= 1

\* A transaction of the second download tier is in flight, all alone.
SecondTierInFlight ==
    /\ pc = "down"
    /\ tier = 2
    /\ run.i = 0
    /\ InFlight = {run.tx}
    /\ txs[run.tx].ev = "lookup"

(***************************************************************************)
(* C3                                                                      *)
(***************************************************************************)
\* The header gives no duration: it is missing, or no number is read from it.
TimingUnusable(h) == ~h.present \/ ServerTiming(h) = NaN

\* The trials up to trial i whose transaction gives a measurement: the
\* connection does not error and the header gives a duration.
UsableTrials(i) ==
    {j \in 0..i : ScriptOf(j).fate = "ok" /\ ~TimingUnusable(ScriptOf(j).header)}

\* C3: a transaction whose response has ended with the server-timing header
\* missing or not a number is rejected, the process goes on, and the series
\* holds no measurement of such a trial.
UnusableTimingIsRejected ==
    /\ \A id \in TxIds :
           (txs[id].ev = "end" /\ TimingUnusable(txs[id].header)) =>
               /\ txs[id].promise = "rejected"
               /\ pc # "crashed"
    /\ run.kind # "none" =>
           Len(run.measurements) <= Cardinality(UsableTrials(run.i))

(***************************************************************************)
(* C4                                                                      *)
(***************************************************************************)
\* C4: whenever the connection of an open transaction errors, at whatever
\* phase, its promise is rejected and the process goes on; the runner that
\* awaits it writes one line to the error stream and pushes nothing; and
\* from there the loop issues the next trial, or returns after the last.
ConnectionErrorIsRejectedAndLogged ==
    [][/\ \A id \in TxIds :
              (txs[id].st = "open" /\ txs'[id].ev = "error") =>
                  /\ txs'[id].promise = "rejected"
                  /\ pc' = pc
       /\ (run.at = "await" /\ txs[run.tx].promise = "rejected" /\ run' # run) =>
              /\ stderr' = stderr + 1
              /\ run'.measurements = run.measurements
              /\ run'.at = "next"
       /\ (run.at = "next" /\ txs[run.tx].promise = "rejected" /\ run' # run) =>
              IF run.i + 1 < run.iterations
              THEN /\ run'.at = "await"
                   /\ run'.i = run.i + 1
                   /\ run'.measurements = run.measurements
                   /\ txs'[run'.tx].promise = "pending"
              ELSE run'.kind = "none" \/ run'.at \in {"returned", "threw"}
      ]_vars

\* Two trials whose connection errored, the second one while the body was
\* arriving: both are logged, nothing is measured.
TwoErrorsLogged ==
    /\ run.kind = "upload"
    /\ run.at = "next"
    /\ run.i = 1
    /\ txs[run.tx].ev = "error"
    /\ txs[run.tx].promise = "rejected"
    /\ txs[run.tx].ttfb # Undefined
    /\ stderr = 2
    /\ run.measurements = <<>>

(***************************************************************************)
(* C5                                                                      *)
(***************************************************************************)
\* C5: every element of a series is a finite number that is not negative.
SeriesFiniteNonNegative ==
    \A k \in 1..Len(run.measurements) : IsFiniteNonNeg(run.measurements[k])

(***************************************************************************)
(* C6, C7, C8                                                              *)
(***************************************************************************)
\* The runner has just handled the trial whose transaction resolved with v.
Pushed(kind) ==
    /\ run.kind = kind
    /\ run.at = "next"
    /\ txs[run.tx].promise = "resolved"

LastMeasurement == run.measurements[Len(run.measurements)]

\* C6: a latency trial that succeeded has appended ttfb - started -
\* serverTiming of its transaction, 40 for 100, 150 and 10; measureLatency
\* downloads 1000 bytes, attempts 20 trials before it returns, and returns
\* the minimum, maximum, average, median and jitter of the series.
LatencyIsFirstByteLessServerTime ==
    /\ Pushed("latency") =>
           LET v == txs[run.tx].value
           IN  /\ Len(run.measurements) =
                      Cardinality({j \in 0..run.i : TrialSucceeds(j)})
               /\ LastMeasurement = Sub(Sub(v.ttfb, v.started), v.serverTiming)
               /\ (v.started = Num(100) /\ v.ttfb = Num(150)
                       /\ v.serverTiming = Num(10))
                      => LastMeasurement = Num(40)
    /\ run.kind = "latency" =>
           /\ run.iterations = 20
           /\ run.attempts <= 20
           /\ \A id \in InFlight : txs[id].method = "GET" /\ txs[id].bytes = 1000
    /\ (run.kind = "latency" /\ run.at = "returned") =>
           /\ run.attempts = 20
           /\ Len(run.result) = 5
           /\ run.result = <<MathMin(run.measurements), MathMax(run.measurements),
                             average(run.measurements), median(run.measurements),
                             jitter(run.measurements)>>

\* Twenty trials that met 50 ms to the first byte, of which the server
\* reported 10, have returned 40 as minimum, maximum, average and median.
TwentyLatencyTrialsOfForty ==
    /\ run.kind = "latency"
    /\ run.at = "returned"
    /\ \A j \in 0..19 : ScriptOf(j) = Nominal
    /\ Len(run.measurements) = 20
    /\ run.result = <<Num(40), Num(40), Num(40), Num(40), Num(0)>>

\* C7: a download trial that succeeded has appended measureSpeed(bytes,
\* ended - ttfb) of its transaction: the speed over the transfer alone.
DownloadIsSpeedOverTransfer ==
    Pushed("download") =>
        LET v == txs[run.tx].value
        IN  /\ Len(run.measurements) =
                   Cardinality({j \in 0..run.i : TrialSucceeds(j)})
            /\ LastMeasurement = measureSpeed(Num(run.bytes), Sub(v.ended, v.ttfb))

\* A megabyte that took 50 ms of a transaction of 100 ms: 160 Mbit/s.
MegabyteInFiftyMilliseconds ==
    /\ Pushed("download")
    /\ run.bytes = 1000000
    /\ txs[run.tx].value.started = Num(100)
    /\ txs[run.tx].value.ttfb = Num(150)
    /\ txs[run.tx].value.ended = Num(200)
    /\ run.measurements = <<Num(160)>>

\* C8: an upload trial that succeeded has appended measureSpeed(bytes,
\* serverTiming) of its transaction, whatever the client's clock read.
UploadIsSpeedOverServerTime ==
    Pushed("upload") =>
        LET v == txs[run.tx].value
        IN  /\ Len(run.measurements) =
                   Cardinality({j \in 0..run.i : TrialSucceeds(j)})
            /\ LastMeasurement = measureSpeed(Num(run.bytes), v.serverTiming)

\* A thousand bytes the server took 10 ms for, the client 50 ms: 0.8 Mbit/s.
ThousandBytesInTenMilliseconds ==
    /\ Pushed("upload")
    /\ run.bytes = 1000
    /\ txs[run.tx].value.serverTiming = Num(10)
    /\ Sub(txs[run.tx].value.ended, txs[run.tx].value.ttfb) = Num(50)
    /\ run.measurements = <<Fin(8, 1, -1)>>

(***************************************************************************)
(* C9                                                                      *)
(***************************************************************************)
\* The speeds reported so far, by label and in order: printed when flushing,
\* pushed to the report otherwise.
RECURSIVE SpeedLabels(_)
SpeedLabels(out) ==
    IF out = <<>> THEN <<>>
    ELSE IF Head(out).k = "speed" THEN <<Head(out).a>> \o SpeedLabels(Tail(out))
    ELSE SpeedLabels(Tail(out))

SpeedsReported ==
    IF flushing THEN SpeedLabels(stdout)
    ELSE [k \in 1..Len(results.download_speeds) |-> results.download_speeds[k].size]
         \o [k \in 1..Len(results.upload_speeds) |-> results.upload_speeds[k].size]

\* The latency is in the report and, when flushing, printed.
LatencyReported ==
    /\ results.set
    /\ flushing => \E k \in 1..Len(stdout) : stdout[k].k = "latency"

\* The order the claim gives: label, bytes and trials of each download tier,
\* bytes and trials of each upload tier, and the labels of the two overall
\* figures.
PlannedDownloads ==
    <<<<"100kB", 101000, 10>>, <<"1MB", 1001000, 8>>, <<"10MB", 10001000, 6>>,
      <<"25MB", 25001000, 4>>, <<"100MB", 100001000, 1>>>>

PlannedUploads == <<<<11000, 10>>, <<101000, 10>>, <<1001000, 8>>>>

PlannedReports ==
    [k \in 1..5 |-> PlannedDownloads[k][1]]
    \o (IF flushing THEN <<"Download speed", "Upload speed">>
        ELSE <<"overall", "overall">>)

SpeedTestInOrder ==
    /\ pc \in {"init", "fanout", "rejected"} =>
           /\ run.kind \in {"none", "latency"}
           /\ stdout = <<>>
           /\ ~results.set
    /\ run.kind = "download" =>
           /\ pc \in {"down", "crashed"}
           /\ LatencyReported
           /\ tier \in 1..5
           /\ <<run.bytes, run.iterations>> =
                  <<PlannedDownloads[tier][2], PlannedDownloads[tier][3]>>
           /\ Len(down) = tier - 1
           /\ SpeedsReported = SubSeq(PlannedReports, 1, tier - 1)
    /\ run.kind = "upload" =>
           /\ pc \in {"up", "crashed"}
           /\ LatencyReported
           /\ tier \in 1..3
           /\ <<run.bytes, run.iterations>> = PlannedUploads[tier]
           /\ Len(down) = 5
           /\ Len(up) = tier - 1
           /\ SpeedsReported = SubSeq(PlannedReports, 1, 6)
    /\ pc = "done" =>
           /\ LatencyReported
           /\ Len(down) = 5
           /\ Len(up) = 3
           /\ SpeedsReported = PlannedReports

\* speedTest only moves forward, and a runner is called once for a tier.
SpeedTestForward ==
    /\ pc' # pc =>
           <<pc, pc'>> \in {<<"init", "fanout">>, <<"fanout", "down">>,
                            <<"down", "up">>, <<"up", "done">>,
                            <<"fanout", "rejected">>, <<"init", "crashed">>,
                            <<"fanout", "crashed">>, <<"down", "crashed">>,
                            <<"up", "crashed">>, <<"rejected", "crashed">>}
    /\ (pc' = pc /\ tier' # tier) => tier' = tier + 1
    /\ run'.i < run.i => (pc' # pc \/ tier' # tier)

\* C9: speedTest runs in one fixed order.  No download trial is issued
\* before the latency is reported; the download tiers are 100kB x10, 1MB x8,
\* 10MB x6, 25MB x4, 100MB x1 in this order, each reported before the next
\* starts; the overall download speed is reported before any upload trial;
\* the upload tiers are 11kB x10, 100kB x10, 1MB x8 in this order; speedTest
\* is done only once the overall upload speed is reported; and it never goes
\* back to a step or calls a runner twice for a tier.
SpeedTestIsLinear == []SpeedTestInOrder /\ [][SpeedTestForward]_vars

\* speedTest is done and everything was printed, in order.
AllReportedInOrder ==
    /\ pc = "done"
    /\ flushing
    /\ SpeedLabels(stdout) = <<"100kB", "1MB", "10MB", "25MB", "100MB",
                               "Download speed", "Upload speed">>
    /\ stderr > 0

(***************************************************************************)
(* C10                                                                     *)
(***************************************************************************)
\* C10: a series that is empty raises no error where it is reported: no
\* runner throws, and speedTest is rejected only when a lookup is.
EmptySeriesNeverAborts ==
    /\ run.at # "threw"
    /\ pc = "rejected" => \E g \in GetNames : gets[g].st = "rejected"

(***************************************************************************)
(* C11                                                                     *)
(***************************************************************************)
\* The JSON documents written so far.
JsonDocuments == {k \in 1..Len(stdout) : stdout[k].k = "json"}

\* C11: with --json nothing is written to standard output by the five log
\* functions, and the only thing ever written is one JSON document, once
\* the last upload trial is over; without --json no JSON document is
\* written.
JsonModeWritesOneDocument ==
    /\ JsonKey \in args =>
           /\ \A k \in 1..Len(stdout) : stdout[k].k = "json"
           /\ Len(stdout) <= 1
           /\ stdout # <<>> =>
                  /\ pc = "done"
                  /\ Len(up) = Len(UploadTiers)
                  /\ InFlight = {}
           /\ pc = "done" => Len(stdout) = 1
    /\ JsonKey \notin args => JsonDocuments = {}

\* A run with --json is over, with trials that failed: one document.
JsonRunDone ==
    /\ JsonKey \in args
    /\ pc = "done"
    /\ stderr > 0
    /\ Len(stdout) = 1
    /\ stdout[1].k = "json"
    /\ stdout[1].b = results

(***************************************************************************)
(* C12                                                                     *)
(***************************************************************************)
Sizes(entries) == [k \in 1..Len(entries) |-> entries[k].size]

\* C12: the report printed with --json holds one download entry for every
\* download tier, in order, and then "overall"; and one upload entry for
\* every upload tier and then "overall".
JsonReportHasEveryTier ==
    \A k \in JsonDocuments :
        LET r == stdout[k].b
            ups == Sizes(r.upload_speeds)
        IN  /\ Sizes(r.download_speeds) =
                   <<"100kB", "1MB", "10MB", "25MB", "100MB", "overall">>
            /\ Len(ups) = Len(PlannedUploads) + 1
            /\ ups[Len(ups)] = "overall"
            /\ \A j \in 1..(Len(ups) - 1) : ups[j] # "overall"

(***************************************************************************)
(* C13                                                                     *)
(***************************************************************************)
\* C13: the report is written by one step only, which finds it unset and
\* runs when all the download and upload tiers are over.
ReportWrittenOnceAtTheEnd ==
    [][results' # results =>
          /\ ~results.set
          /\ Len(down') = Len(PlannedDownloads)
          /\ Len(up') = Len(PlannedUploads)
          /\ InFlight = {}]_vars

(***************************************************************************)
(* C14                                                                     *)
(***************************************************************************)
\* Among the first k tiers of a sweep, one with more bytes has fewer trials
\* (strict), or no more trials.
FewerTrials(tiers, k, strict) ==
    \A a, b \in 1..k :
        tiers[a].bytes > tiers[b].bytes =>
            IF strict THEN tiers[a].n < tiers[b].n ELSE tiers[a].n <= tiers[b].n

\* C14 as stated: among the tiers speedTest has called so far, in the
\* download sweep and in the upload sweep, a tier with a larger payload has
\* fewer trials.
LargerPayloadFewerTrials ==
    /\ pc = "down" => FewerTrials(DownloadTiers, tier, TRUE)
    /\ pc = "up" => FewerTrials(UploadTiers, tier, TRUE)

\* C14, amended: among the tiers speedTest has called so far, a download
\* tier with a larger payload has fewer trials, and an upload tier with a
\* larger payload has no more trials; the tier being run is the one the
\* table gives.
LargerPayloadNoMoreTrials ==
    /\ pc = "down" =>
           /\ FewerTrials(DownloadTiers, tier, TRUE)
           /\ run.kind = "download" =>
                  <<run.bytes, run.iterations>> =
                      <<DownloadTiers[tier].bytes, DownloadTiers[tier].n>>
    /\ pc = "up" =>
           /\ FewerTrials(DownloadTiers, Len(DownloadTiers), TRUE)
           /\ FewerTrials(UploadTiers, tier, FALSE)
           /\ run.kind = "upload" =>
                  <<run.bytes, run.iterations>> =
                      <<UploadTiers[tier].bytes, UploadTiers[tier].n>>

\* The second upload tier runs: 101000 bytes, ten trials as for 11000.
SecondUploadTierRuns ==
    /\ pc = "up"
    /\ tier = 2
    /\ run.at = "await"
    /\ run.bytes = 101000
    /\ run.iterations = 10
    /\ Len(up) = 1

(***************************************************************************)
(* C15                                                                     *)
(***************************************************************************)
\* The timestamps of a resolved transaction, in the order of the phases.
Phases(v) ==
    <<v.started, v.dnsLookup, v.tcpHandshake, v.sslHandshake, v.ttfb, v.ended>>

\* C15: in the object request() resolves with, started, ttfb and ended are
\* recorded, and of the timestamps that are recorded none is less than one
\* of an earlier phase, whatever the events of another transaction did to
\* the clock in between.
TimestampsInPhaseOrder ==
    \A id \in TxIds :
        txs[id].promise = "resolved" =>
            LET c == Phases(txs[id].value)
            IN  /\ c[1] # Undefined
                /\ c[5] # Undefined
                /\ c[6] # Undefined
                /\ \A a, b \in 1..6 :
                       (a < b /\ c[a] # Undefined /\ c[b] # Undefined)
                           => ~Less(c[b], c[a])

\* A transaction without lookup resolved after one with lookup that began
\* before it and ended after it began.
ResolvedWithoutLookup ==
    /\ txs[1].promise = "resolved"
    /\ txs[2].promise = "resolved"
    /\ txs[1].value.dnsLookup # Undefined
    /\ txs[2].value.dnsLookup = Undefined
    /\ txs[2].value.tcpHandshake # Undefined
    /\ Less(txs[2].value.started, txs[1].value.ended)
    /\ Less(txs[2].value.started, txs[2].value.ended)

(***************************************************************************)
(* C17                                                                     *)
(***************************************************************************)
TimingFields(t) ==
    <<t.started, t.dnsLookup, t.tcpHandshake, t.sslHandshake, t.ttfb, t.ended>>

\* C17: an event of a transaction changes nothing of another transaction
\* and no variable of the module; it leaves the timestamps the transaction
\* has recorded as they are, a new one being the clock's reading; and the
\* object the transaction resolves with holds its own timestamps.
TransactionsOwnTheirTimes ==
    [][\A id \in TxIds :
           (txs[id].st = "open" /\ txs'[id] # txs[id]) =>
               /\ \A other \in TxIds \ {id} : txs'[other] = txs[other]
               /\ UNCHANGED <<tier, args, flushing, results, stdout, stderr, run,
                              gets, down, up, ret>>
               /\ \A k \in 1..6 :
                      LET old == TimingFields(txs[id])[k]
                          new == TimingFields(txs'[id])[k]
                      IN  IF old # Undefined THEN new = old
                          ELSE new \in {Undefined, Num(clock')}
               /\ txs'[id].promise = "resolved" =>
                      Phases(txs'[id].value) = TimingFields(txs'[id])
      ]_vars

\* Two transactions resolved whose events came crosswise.
TwoResolvedCrosswise ==
    /\ txs[1].promise = "resolved"
    /\ txs[2].promise = "resolved"
    /\ Less(txs[1].value.started, txs[2].value.started)
    /\ Less(txs[2].value.tcpHandshake, txs[1].value.tcpHandshake)
    /\ Less(txs[1].value.ttfb, txs[2].value.ttfb)
    /\ Less(txs[2].value.ended, txs[1].value.ended)

(***************************************************************************)
(* C16                                                                     *)
(***************************************************************************)
\* The latency fields the plan of the network gives: as many samples of
\* 40 ms as trials succeed among the twenty.
PlannedLatency ==
    IF \E i \in 0..19 : TrialSucceeds(i)
    THEN [min |-> ToFixed2(Num(40)), max |-> ToFixed2(Num(40)),
          average |-> ToFixed2(Num(40)), median |-> ToFixed2(Num(40)),
          jitter |-> ToFixed2(Num(0))]
    ELSE [min |-> ToFixed2(PosInf), max |-> ToFixed2(NegInf),
          average |-> ToFixed2(NaN), median |-> ToFixed2(NaN),
          jitter |-> ToFixed2(Num(0))]

\* C16: the latency probe and the two lookups are started together, none
\* being over before all are started; the report, the output mode and the
\* first lines are written only when all three are over; and the report's
\* server_location, your_ip and latency are what the answers and the plan
\* give, in whatever order the three came to their end.
FanOutThenFanIn ==
    /\ pc = "init" =>
           /\ run.kind = "none"
           /\ \A g \in GetNames : gets[g].st = "unsent"
    /\ pc # "init" => \A g \in GetNames : gets[g].st # "unsent"
    /\ pc = "fanout" => run.kind = "latency"
    /\ (results.set \/ ~flushing \/ stdout # <<>>) =>
           /\ \A g \in GetNames : gets[g].st = "resolved"
           /\ run.kind # "latency"
           /\ results.set
           /\ results.server_location = <<"Ashburn", "IAD">>
           /\ results.your_ip = <<"192.0.2.1", "US">>
           /\ results.latency = PlannedLatency

\* The report is there, after a probe with failed trials.
FannedIn ==
    /\ pc = "down"
    /\ tier = 1
    /\ run.attempts = 1
    /\ stderr > 0
    /\ results.latency.median = ToFixed2(Num(40))
    /\ results.server_location = <<"Ashburn", "IAD">>

(***************************************************************************)
(* C18                                                                     *)
(***************************************************************************)
\* The latency samples of the first n trials in the order the trials ran:
\* five gaps of the clock from started to the first byte, less what the
\* server reported.
RECURSIVE LatenciesInOrder(_)
LatenciesInOrder(n) ==
    IF n = 0 THEN <<>>
    ELSE IF TrialSucceeds(n - 1)
         THEN Append(LatenciesInOrder(n - 1),
                     Sub(Num(5 * ScriptOf(n - 1).gap),
                         ServerTiming(ScriptOf(n - 1).header)))
         ELSE LatenciesInOrder(n - 1)

RECURSIVE AbsoluteDifferences(_)
AbsoluteDifferences(s) ==
    IF Len(s) < 2 THEN Num(0)
    ELSE Add(AbsNum(Sub(s[1], s[2])), AbsoluteDifferences(Tail(s)))

IsQuotient(r, p, q) ==
    /\ r.k = "fin"
    /\ IF r.e >= 0 THEN r.n * Pow10(r.e) * q = p * r.d
       ELSE r.n * q = p * r.d * Pow10(-r.e)

\* C19: for b bytes and d > 0 milliseconds measureSpeed returns b * 8 /
\* (d * 1000), and 8 for 1000000 bytes in 1000 ms (the rounding of the
\* floating-point operations apart).
SpeedIsBitsPerMicrosecond ==
    ret.state = "speed" =>
        LET b == ret.value[1]
            d == ret.value[2]
            r == ret.value[3]
        IN  /\ IsQuotient(r, b * 8, d * 1000)
            /\ (b = 1000000 /\ d = 1000) => r = Num(8)

\* A megabyte in a second: 8.
MegabyteInASecond ==
    /\ ret.state = "speed"
    /\ ret.value = <<1000000, 1000, Num(8)>>

(***************************************************************************)
(* C20                                                                     *)
(***************************************************************************)
\* The arguments after the script's name that start with "--", without it.
NamedFlags(argv) ==
    {SubSeq(argv[i], 3, Len(argv[i])) :
        i \in {j \in 3..Len(argv) :
                  Len(argv[j]) >= 2 /\ argv[j][1] = "-" /\ argv[j][2] = "-"}}

\* C20: the keys of the object parseArgs returns are the names of the
\* arguments that start with "--": none for no argument, json for --json.
KeysAreTheNamedFlags ==
    ret.state = "args" =>
        /\ args = NamedFlags(ret.value)
        /\ ret.value = <<NodeArg, ScriptArg>> => args = {}
        /\ ret.value = <<NodeArg, ScriptArg, JsonFlag>> => args = {JsonKey}


(***************************************************************************)
(* C21                                                                     *)
(***************************************************************************)
\* The request of get(g) emits 'error' in this step: the call is under way,
\* with or without a response, and the step leaves it ended by the error.
RequestErrors(g) ==
    /\ gets[g].st \in {"sent", "response"}
    /\ gets'[g].st \in {"failed", "rejected"}

\* C21: whenever the request of a get() call emits an error, before or after
\* the response has arrived, the promise of that call is rejected and the
\* process goes on, so that the await of the lookups in speedTest ends.
GetRejectsOnEveryError ==
    [][\A g \in GetNames :
          RequestErrors(g) => gets'[g].st = "rejected" /\ pc' # "crashed"]_vars

====
